---- MODULE Spec2Model ----
(***************************************************************************)
(* Model of the two ctags navigation tools of markdown-navigator-mcp:      *)
(*   ctags-section.py  (find_section_bounds, main)                         *)
(*   ctags-tree.py     (TagEntry, parse_tags_file, build_tree_structure,   *)
(*                      main)                                              *)
(* Text is modelled as TLA+ strings, taken apart character by character,   *)
(* so that split / startswith / lower / int are computed, not assumed.     *)
(* Python's None is the empty tuple and a present value v is <<v>>.        *)
(***************************************************************************)
EXTENDS Integers, Sequences, FiniteSets, TLC

VARIABLES
  tags,           \* the lines of the tag file, each ending in "\n"
  target_file,    \* sys.argv[2]
  section_query,  \* sys.argv[3] of ctags-section.py
  sec_pc,         \* position of ctags-section.py
  sec_entries,    \* find_section_bounds: entries, after the sort
  sec_result,     \* the triple find_section_bounds returned
  sec_out,        \* what ctags-section.py printed, and its exit code
  tree_pc,        \* position of ctags-tree.py
  tree_entries,   \* the list parse_tags_file returned
  k,              \* build_tree_structure: index of the next entry of the loop
  stack,          \* build_tree_structure: stack
  lines,          \* build_tree_structure: lines
  tree_out        \* what ctags-tree.py printed, and its exit code

vars == <<tags, target_file, section_query, sec_pc, sec_entries, sec_result,
          sec_out, tree_pc, tree_entries, k, stack, lines, tree_out>>

\* The longest tag file explored, in lines.
MaxRows == 3

-----------------------------------------------------------------------------
\* Python values

None == <<>>
Some(v) == <<v>>

\* bool(x) of an Optional[int]: None and 0 are false.
TruthyInt(o) == o # None /\ o[1] # 0

\* bool(x) of an Optional[str]: None and '' are false.
TruthyStr(o) == o # None /\ Len(o[1]) > 0

-----------------------------------------------------------------------------
\* Python str operations

Char(s, i) == SubSeq(s, i, i)

Tail0(s, i) == SubSeq(s, i, Len(s))

\* s.startswith(p)
StartsWith(s, p) == Len(s) >= Len(p) /\ SubSeq(s, 1, Len(p)) = p

\* Index of the first occurrence of the one-character sep in s, 0 if none.
FindChar(s, sep) ==
  IF \E i \in 1..Len(s) : Char(s, i) = sep
  THEN CHOOSE i \in 1..Len(s) :
         /\ Char(s, i) = sep
         /\ \A j \in 1..(i - 1) : Char(s, j) # sep
  ELSE 0

\* s.split(sep), sep one character
RECURSIVE Split(_, _)
Split(s, sep) ==
  LET i == FindChar(s, sep)
  IN IF i = 0 THEN <<s>>
     ELSE <<SubSeq(s, 1, i - 1)>> \o Split(Tail0(s, i + 1), sep)

\* s.split(sep, 1)
SplitOnce(s, sep) ==
  LET i == FindChar(s, sep)
  IN IF i = 0 THEN <<s>>
     ELSE <<SubSeq(s, 1, i - 1), Tail0(s, i + 1)>>

\* s.rstrip('\n')
RECURSIVE RStripNewline(_)
RStripNewline(s) ==
  IF Len(s) > 0 /\ Char(s, Len(s)) = "\n"
  THEN RStripNewline(SubSeq(s, 1, Len(s) - 1))
  ELSE s

\* c.lower() for the letters the explored names and queries are written in
LowerChar(c) ==
  CASE c = "A" -> "a"
    [] c = "B" -> "b"
    [] c = "C" -> "c"
    [] c = "Z" -> "z"
    [] OTHER -> c

\* s.lower()
RECURSIVE Lower(_)
Lower(s) ==
  IF Len(s) = 0 THEN ""
  ELSE LowerChar(Char(s, 1)) \o Lower(Tail0(s, 2))

\* needle in hay
Contains(hay, needle) ==
  \E i \in 0..(Len(hay) - Len(needle)) :
     SubSeq(hay, i + 1, i + Len(needle)) = needle

-----------------------------------------------------------------------------
\* int(s): surrounding whitespace is dropped, then an optional sign and
\* decimal digits, single underscores allowed between digits.  Anything else
\* raises ValueError, which is None here.

IsSpace(c) == c \in {" ", "\n", "\r", "\t"}

IsDigit(c) == c \in {"0", "1", "2", "3", "4", "5", "6", "7", "8", "9"}

DigitVal(c) ==
  CASE c = "0" -> 0 [] c = "1" -> 1 [] c = "2" -> 2 [] c = "3" -> 3
    [] c = "4" -> 4 [] c = "5" -> 5 [] c = "6" -> 6 [] c = "7" -> 7
    [] c = "8" -> 8 [] c = "9" -> 9

RECURSIVE Strip(_)
Strip(s) ==
  IF Len(s) > 0 /\ IsSpace(Char(s, 1)) THEN Strip(Tail0(s, 2))
  ELSE IF Len(s) > 0 /\ IsSpace(Char(s, Len(s)))
       THEN Strip(SubSeq(s, 1, Len(s) - 1))
       ELSE s

\* The digits of d are well formed: digits, with single underscores inside.
DigitsOk(d) ==
  /\ Len(d) > 0
  /\ IsDigit(Char(d, 1))
  /\ IsDigit(Char(d, Len(d)))
  /\ \A i \in 1..Len(d) : IsDigit(Char(d, i)) \/ Char(d, i) = "_"
  /\ \A i \in 1..(Len(d) - 1) : ~(Char(d, i) = "_" /\ Char(d, i + 1) = "_")

RECURSIVE DigitsValue(_, _)
DigitsValue(d, acc) ==
  IF Len(d) = 0 THEN acc
  ELSE IF Char(d, 1) = "_" THEN DigitsValue(Tail0(d, 2), acc)
       ELSE DigitsValue(Tail0(d, 2), 10 * acc + DigitVal(Char(d, 1)))

int(s) ==
  LET t    == Strip(s)
      sgn  == IF Len(t) > 0 /\ Char(t, 1) \in {"+", "-"} THEN Char(t, 1) ELSE ""
      d    == IF sgn = "" THEN t ELSE Tail0(t, 2)
  IN IF ~DigitsOk(d) THEN None
     ELSE Some(IF sgn = "-" THEN 0 - DigitsValue(d, 0) ELSE DigitsValue(d, 0))

\* str(n) of an int, as an f-string formats it
DigitChar(d) ==
  CASE d = 0 -> "0" [] d = 1 -> "1" [] d = 2 -> "2" [] d = 3 -> "3"
    [] d = 4 -> "4" [] d = 5 -> "5" [] d = 6 -> "6" [] d = 7 -> "7"
    [] d = 8 -> "8" [] d = 9 -> "9"

RECURSIVE StrNat(_)
StrNat(n) ==
  IF n < 10 THEN DigitChar(n) ELSE StrNat(n \div 10) \o DigitChar(n % 10)

str(n) == IF n < 0 THEN "-" \o StrNat(0 - n) ELSE StrNat(n)

-----------------------------------------------------------------------------
\* The heading kinds both readers recognise.
Kinds == {"chapter", "section", "subsection", "subsubsection"}

\* dict.get(kind, default) on the kind -> level table of both tools
KindLevel(kind, default) ==
  CASE kind = "chapter"       -> 1
    [] kind = "section"       -> 2
    [] kind = "subsection"    -> 3
    [] kind = "subsubsection" -> 4
    [] OTHER                  -> default

-----------------------------------------------------------------------------
\* list.sort(key=...): a stable sort.  The list is given decorated, as pairs
\* <<key, element>>; an element goes after every element whose key is <= its
\* own, so equal keys keep their order of appearance.

\* Insert with the comparison strict: equal keys end up in reverse order.
Insert_BeforeEqual(sorted, p) ==
  LET n == Cardinality({i \in 1..Len(sorted) : sorted[i][1] < p[1]})
  IN SubSeq(sorted, 1, n) \o <<p>> \o SubSeq(sorted, n + 1, Len(sorted))

Insert(sorted, p) ==
  LET n == Cardinality({i \in 1..Len(sorted) : sorted[i][1] <= p[1]})
  IN SubSeq(sorted, 1, n) \o <<p>> \o SubSeq(sorted, n + 1, Len(sorted))

RECURSIVE SortPairs(_)
SortPairs(ps) ==
  IF Len(ps) = 0 THEN <<>>
  ELSE Insert(SortPairs(SubSeq(ps, 1, Len(ps) - 1)), ps[Len(ps)])

StableSort(ps) == [i \in 1..Len(ps) |-> SortPairs(ps)[i][2]]

-----------------------------------------------------------------------------
\* ctags-section.py

\* The for loop over parts[3:] (1-based: from the 4th field on).
RECURSIVE SecScanParts(_, _, _, _)
SecScanParts(parts, i, line_num, kind) ==
  IF i > Len(parts)
  THEN [raised |-> FALSE, line_num |-> line_num, kind |-> kind]
  ELSE IF parts[i] \in Kinds
  THEN SecScanParts(parts, i + 1, line_num, Some(parts[i]))
  ELSE IF StartsWith(parts[i], "line:")
  THEN LET v == int(Split(parts[i], ":")[2])
       IN IF v = None
          THEN [raised |-> TRUE, line_num |-> line_num, kind |-> kind]
          ELSE SecScanParts(parts, i + 1, v, kind)
  ELSE SecScanParts(parts, i + 1, line_num, kind)

\* SecAccept testing "line_num is not None": line 0 is accepted.
SecAccept_NotNone(line_num, kind) == line_num # None /\ TruthyStr(kind)

\* "if line_num and kind"
SecAccept(line_num, kind) == TruthyInt(line_num) /\ TruthyStr(kind)

\* One iteration of "for line in f": the entries after it, or ValueError.
SecReadLine(line, target, entries) ==
  IF StartsWith(line, "!_TAG") THEN [raised |-> FALSE, entries |-> entries]
  ELSE
    LET parts == Split(RStripNewline(line), "\t")
    IN IF Len(parts) < 4 THEN [raised |-> FALSE, entries |-> entries]
       ELSE IF parts[2] # target THEN [raised |-> FALSE, entries |-> entries]
       ELSE
         LET r == SecScanParts(parts, 4, None, None)
         IN IF r.raised THEN [raised |-> TRUE, entries |-> entries]
            ELSE IF SecAccept(r.line_num, r.kind)
            THEN [raised |-> FALSE,
                  entries |-> Append(entries, [name     |-> parts[1],
                                               line_num |-> r.line_num[1],
                                               kind     |-> r.kind[1]])]
            ELSE [raised |-> FALSE, entries |-> entries]

\* The whole reading loop over the first n lines of f.
RECURSIVE SecRead(_, _, _)
SecRead(f, n, target) ==
  IF n = 0 THEN [raised |-> FALSE, entries |-> <<>>]
  ELSE LET before == SecRead(f, n - 1, target)
       IN IF before.raised THEN before
          ELSE SecReadLine(f[n], target, before.entries)

\* SecSort left out: the entries stay in file order.
SecSort_Unsorted(entries) == entries

\* entries.sort(key=lambda e: e[1])
SecSort(entries) ==
  StableSort([i \in 1..Len(entries) |-> <<entries[i].line_num, entries[i]>>])

\* Matches with the query not lowered.
Matches_QueryAsIs(query, name) == Contains(Lower(name), query)

\* "section_query.lower() in name.lower()"
Matches(query, name) == Contains(Lower(name), Lower(query))

\* The matching loop: the index of the first matching entry, 0 for None.
FindTarget(entries, query) ==
  IF \E i \in 1..Len(entries) : Matches(query, entries[i].name)
  THEN CHOOSE i \in 1..Len(entries) :
         /\ Matches(query, entries[i].name)
         /\ \A j \in 1..(i - 1) : ~Matches(query, entries[j].name)
  ELSE 0

\* ClosesSection with a strict comparison: a same-level heading does not close.
ClosesSection_Strict(kind, target_level) == KindLevel(kind, 5) < target_level

\* "kind_levels.get(kind, 5) <= target_level"
ClosesSection(kind, target_level) == KindLevel(kind, 5) <= target_level

\* The end-line loop: end_line as an Optional[int].
FindEnd(entries, target_idx) ==
  LET target_level == KindLevel(entries[target_idx].kind, 2)
      closing == {i \in (target_idx + 1)..Len(entries) :
                    ClosesSection(entries[i].kind, target_level)}
  IN IF closing = {} THEN None
     ELSE LET idx == CHOOSE i \in closing : \A j \in closing : i <= j
          IN Some(entries[idx].line_num - 1)

\* find_section_bounds: ValueError, or the sorted entries and the triple.
find_section_bounds(tags_file, target, query) ==
  LET r == SecRead(tags_file, Len(tags_file), target)
  IN IF r.raised
     THEN [raised |-> TRUE, entries |-> <<>>,
           result |-> [start |-> None, end |-> None, name |-> None]]
     ELSE
       LET entries    == SecSort(r.entries)
           target_idx == FindTarget(entries, query)
       IN IF target_idx = 0
          THEN [raised |-> FALSE, entries |-> entries,
                result |-> [start |-> None, end |-> None, name |-> None]]
          ELSE [raised |-> FALSE, entries |-> entries,
                result |-> [start |-> Some(entries[target_idx].line_num),
                            end   |-> FindEnd(entries, target_idx),
                            name  |-> Some(entries[target_idx].name)]]

\* "end if end else 'EOF'", formatted
RangeEnd(end) == IF TruthyInt(end) THEN str(end[1]) ELSE "EOF"

\* "end-start+1 if end else 'None'", formatted
ReadLimit(start, end) ==
  IF TruthyInt(end) THEN str(end[1] - start + 1) ELSE "None"

\* main, after find_section_bounds returned: the lines printed and the exit
\* code.  start, end and name are Optional values.
SecMainOutput(target, query, start, end, name) ==
  IF start = None
  THEN [stdout |-> <<"Section matching '" \o query \o "' not found">>,
        code   |-> 1]
  ELSE [stdout |-> <<"Section: " \o name[1],
                     "Lines: " \o str(start[1]) \o "-" \o RangeEnd(end),
                     "",
                     "To read this section:",
                     "Read(file_path='" \o target \o "', offset="
                        \o str(start[1] - 1) \o ", limit="
                        \o ReadLimit(start[1], end)
                        \o ")">>,
        code   |-> 0]

-----------------------------------------------------------------------------
\* ctags-tree.py

\* TagEntry._determine_level: kind_map.get(kind, 0)
determine_level(kind) == KindLevel(kind, 0)

\* TagEntry.__init__; line and scope are Optional.
TagEntry(name, file, pattern, kind, line, scope) ==
  [name |-> name, file |-> file, pattern |-> pattern, kind |-> kind,
   line |-> line, scope |-> scope, level |-> determine_level(kind)]

\* The for loop over parts[3:] (1-based: from the 4th field on).
RECURSIVE TreeScanParts(_, _, _, _, _)
TreeScanParts(parts, i, kind, line_num, scope) ==
  IF i > Len(parts)
  THEN [raised |-> FALSE, kind |-> kind, line_num |-> line_num, scope |-> scope]
  ELSE IF StartsWith(parts[i], ";\"")
  THEN TreeScanParts(parts, i + 1, kind, line_num, scope)
  ELSE IF parts[i] \in Kinds
  THEN TreeScanParts(parts, i + 1, Some(parts[i]), line_num, scope)
  ELSE IF StartsWith(parts[i], "line:")
  THEN LET v == int(Split(parts[i], ":")[2])
       IN IF v = None
          THEN [raised |-> TRUE, kind |-> kind, line_num |-> line_num,
                scope |-> scope]
          ELSE TreeScanParts(parts, i + 1, kind, v, scope)
  ELSE IF \/ StartsWith(parts[i], "chapter:")
          \/ StartsWith(parts[i], "section:")
          \/ StartsWith(parts[i], "subsection:")
  THEN TreeScanParts(parts, i + 1, kind, line_num,
                     IF Contains(parts[i], ":")
                     THEN Some(SplitOnce(parts[i], ":")[2]) ELSE None)
  ELSE TreeScanParts(parts, i + 1, kind, line_num, scope)

\* "if kind"
TreeAccept(line_num, kind) == TruthyStr(kind)

\* One iteration of "for line in f": the entries after it, or ValueError.
TreeReadLine(line, target, entries) ==
  IF StartsWith(line, "!_TAG") THEN [raised |-> FALSE, entries |-> entries]
  ELSE
    LET parts == Split(RStripNewline(line), "\t")
    IN IF Len(parts) < 4 THEN [raised |-> FALSE, entries |-> entries]
       ELSE IF parts[2] # target THEN [raised |-> FALSE, entries |-> entries]
       ELSE
         LET r == TreeScanParts(parts, 4, None, None, None)
         IN IF r.raised THEN [raised |-> TRUE, entries |-> entries]
            ELSE IF TreeAccept(r.line_num, r.kind)
            THEN [raised |-> FALSE,
                  entries |-> Append(entries,
                                TagEntry(parts[1], parts[2], parts[3],
                                         r.kind[1], r.line_num, r.scope))]
            ELSE [raised |-> FALSE, entries |-> entries]

\* The whole reading loop over the first n lines of f.
RECURSIVE TreeRead(_, _, _)
TreeRead(f, n, target) ==
  IF n = 0 THEN [raised |-> FALSE, entries |-> <<>>]
  ELSE LET before == TreeRead(f, n - 1, target)
       IN IF before.raised THEN before
          ELSE TreeReadLine(f[n], target, before.entries)

\* "lambda e: e.line if e.line else 0"
TreeSortKey(e) == IF TruthyInt(e.line) THEN e.line[1] ELSE 0

\* TreeSort left out: the entries stay in file order.
TreeSort_Unsorted(entries) == entries

\* entries.sort(key=lambda e: e.line if e.line else 0)
TreeSort(entries) ==
  StableSort([i \in 1..Len(entries) |-> <<TreeSortKey(entries[i]), entries[i]>>])

\* parse_tags_file: ValueError, or the sorted entries.
parse_tags_file(tags_path, target) ==
  LET r == TreeRead(tags_path, Len(tags_path), target)
  IN IF r.raised THEN [raised |-> TRUE, entries |-> <<>>]
     ELSE [raised |-> FALSE, entries |-> TreeSort(r.entries)]

\* ClosesAncestor with a strict comparison: a same-level entry stays open.
ClosesAncestor_Strict(top_level, level) == top_level > level

\* "stack[-1][0] >= level"
ClosesAncestor(top_level, level) == top_level >= level

\* PopToLevel with "if" for "while": at most one entry is popped.
PopToLevel_Once(st, level) ==
  IF Len(st) > 0 /\ st[Len(st)][1] >= level
  THEN SubSeq(st, 1, Len(st) - 1)
  ELSE st

\* "while stack and stack[-1][0] >= level: stack.pop()"
RECURSIVE PopToLevel(_, _)
PopToLevel(st, level) ==
  IF Len(st) > 0 /\ ClosesAncestor(st[Len(st)][1], level)
  THEN PopToLevel(SubSeq(st, 1, Len(st) - 1), level)
  ELSE st

\* s * n
RECURSIVE Repeat(_, _)
Repeat(s, n) == IF n <= 0 THEN "" ELSE s \o Repeat(s, n - 1)

\* The glyphs stand for U+2514 (no open ancestor) and U+2502.
TreeChar(depth) == IF depth = 0 THEN "+" ELSE "|"

\* The formatted line of an entry rendered under the open ancestors st.
FormatLine(st, entry) ==
  LET indent    == Repeat("  ", Len(st))
      line_info == IF TruthyInt(entry.line)
                   THEN "H" \o str(entry.level) \o ":" \o str(entry.line[1])
                   ELSE "H" \o str(entry.level)
  IN indent \o TreeChar(Len(st)) \o " " \o entry.name \o " " \o line_info

\* '\n'.join(ls)
RECURSIVE Join(_)
Join(ls) ==
  IF Len(ls) = 0 THEN ""
  ELSE IF Len(ls) = 1 THEN ls[1]
  ELSE ls[1] \o "\n" \o Join(Tail(ls))

\* The text build_tree_structure returns for non-empty entries.
TreeText(entries, ls) ==
  LET segs     == Split(entries[1].file, "/")
      filename == segs[Len(segs)]
  IN filename \o "\n\n" \o Join(ls)

-----------------------------------------------------------------------------
\* The inputs explored.  A tag file is any sequence of at most MaxRows lines
\* drawn from one of three sets of lines.

Target == "docs/f.md"

\* Lines for the readers: meta, short, foreign, accepted, and malformed rows.
ReaderRows ==
  { "!_TAG_FILE_SORTED\tdocs/f.md\tp\tchapter\tline:1\n",
    "Ab\tdocs/f.md\tchapter\n",
    "Ab\tdocs/g.md\t/^# Ab$/;\"\tchapter\tline:1\n",
    "Ab\tdocs/f.md\t/^# Ab$/;\"\tchapter\tline:2\n",
    "aB\tdocs/f.md\t/^## aB$/;\"\tsection\tline:2\tchapter:Ab\n",
    "b\tdocs/f.md\t/^### b$/;\"\tsubsection\tline:1\n",
    "c\tdocs/f.md\t/^## c$/;\"\tsection\n",
    "c\tdocs/f.md\t/^## c$/;\"\tsection\tline:x\n",
    "z\tdocs/f.md\t/^z$/;\"\tfunction\tline:3\n",
    "c\tdocs/f.md\t/^# c$/;\"\tchapter\tline:0\n" }

\* Lines for the resolver: accepted rows of several levels, lines and names.
ResolverRows ==
  { "Ab\tdocs/f.md\t/^# Ab$/;\"\tchapter\tline:1\n",
    "aB\tdocs/f.md\t/^## aB$/;\"\tsection\tline:2\n",
    "bc\tdocs/f.md\t/^### bc$/;\"\tsubsection\tline:3\n",
    "abc\tdocs/f.md\t/^#### abc$/;\"\tsubsubsection\tline:3\n",
    "C\tdocs/f.md\t/^## C$/;\"\tsection\tline:4\n",
    "c\tdocs/f.md\t/^# c$/;\"\tchapter\tline:5\n" }

\* Lines for the tree builder: every level, on shared and on distinct lines.
TreeRows ==
  { "Ab\tdocs/f.md\t/^# Ab$/;\"\tchapter\tline:1\n",
    "aB\tdocs/f.md\t/^## aB$/;\"\tsection\tline:1\n",
    "bc\tdocs/f.md\t/^### bc$/;\"\tsubsection\tline:1\n",
    "abc\tdocs/f.md\t/^#### abc$/;\"\tsubsubsection\tline:1\n",
    "C\tdocs/f.md\t/^# C$/;\"\tchapter\tline:2\n",
    "c\tdocs/f.md\t/^## c$/;\"\tsection\tline:2\n",
    "z\tdocs/f.md\t/^### z$/;\"\tsubsection\n" }

Files(rows) == UNION {[1..n -> rows] : n \in 0..MaxRows}

\* Both tools are about to call their reader on the same tag file.
InitWith(rows, queries) ==
  /\ tags \in Files(rows)
  /\ target_file = Target
  /\ section_query \in queries
  /\ sec_pc = "start"
  /\ sec_entries = <<>>
  /\ sec_result = [start |-> None, end |-> None, name |-> None]
  /\ sec_out = [stdout |-> <<>>, code |-> 0]
  /\ tree_pc = "start"
  /\ tree_entries = <<>>
  /\ k = 1
  /\ stack = <<>>
  /\ lines = <<>>
  /\ tree_out = [stdout |-> "", code |-> 0]

InitReader == InitWith(ReaderRows, {"b"})

InitResolver == InitWith(ResolverRows, {"AB", "c", "zz"})

InitTree == InitWith(TreeRows, {"b"})

Init == InitReader

SecVars == <<sec_pc, sec_entries, sec_result, sec_out>>

TreeVars == <<tree_pc, tree_entries, k, stack, lines, tree_out>>

Inputs == <<tags, target_file, section_query>>

-----------------------------------------------------------------------------
\* ctags-section.py, main: the call of find_section_bounds.  An uncaught
\* ValueError ends the process with a traceback and exit code 1.
FindSectionBounds ==
  /\ sec_pc = "start"
  /\ LET r == find_section_bounds(tags, target_file, section_query)
     IN IF r.raised
        THEN /\ sec_pc' = "ValueError"
             /\ sec_out' = [stdout |-> <<>>, code |-> 1]
             /\ UNCHANGED <<sec_entries, sec_result>>
        ELSE /\ sec_pc' = "returned"
             /\ sec_entries' = r.entries
             /\ sec_result' = r.result
             /\ UNCHANGED sec_out
  /\ UNCHANGED <<Inputs, TreeVars>>

\* ctags-section.py, main: report the result and exit.
SectionMain ==
  /\ sec_pc = "returned"
  /\ sec_out' = SecMainOutput(target_file, section_query, sec_result.start,
                              sec_result.end, sec_result.name)
  /\ sec_pc' = "exit"
  /\ UNCHANGED <<Inputs, sec_entries, sec_result, TreeVars>>

\* ctags-tree.py, main: the call of parse_tags_file.
ParseTagsFile ==
  /\ tree_pc = "start"
  /\ LET r == parse_tags_file(tags, target_file)
     IN IF r.raised
        THEN /\ tree_pc' = "ValueError"
             /\ tree_out' = [stdout |-> "", code |-> 1]
             /\ UNCHANGED tree_entries
        ELSE /\ tree_pc' = "parsed"
             /\ tree_entries' = r.entries
             /\ UNCHANGED tree_out
  /\ UNCHANGED <<Inputs, SecVars, k, stack, lines>>

\* ctags-tree.py, main: "if not entries", else enter build_tree_structure.
TreeMain ==
  /\ tree_pc = "parsed"
  /\ IF Len(tree_entries) = 0
     THEN /\ tree_pc' = "exit"
          /\ tree_out' = [stdout |-> "No entries found for " \o target_file,
                          code   |-> 1]
          /\ UNCHANGED <<k, stack, lines>>
     ELSE /\ tree_pc' = "loop"
          /\ k' = 1
          /\ stack' = <<>>
          /\ lines' = <<>>
          /\ UNCHANGED tree_out
  /\ UNCHANGED <<Inputs, SecVars, tree_entries>>

\* build_tree_structure: one iteration of "for entry in entries".
BuildTreeStep ==
  /\ tree_pc = "loop"
  /\ k <= Len(tree_entries)
  /\ LET entry  == tree_entries[k]
         popped == PopToLevel(stack, entry.level)
     IN /\ lines' = Append(lines, FormatLine(popped, entry))
        /\ stack' = Append(popped, <<entry.level, entry>>)
  /\ k' = k + 1
  /\ UNCHANGED <<Inputs, SecVars, tree_pc, tree_entries, tree_out>>

\* build_tree_structure: the header and the join; main prints the tree.
BuildTreeFinish ==
  /\ tree_pc = "loop"
  /\ k > Len(tree_entries)
  /\ tree_out' = [stdout |-> TreeText(tree_entries, lines), code |-> 0]
  /\ tree_pc' = "exit"
  /\ UNCHANGED <<Inputs, SecVars, tree_entries, k, stack, lines>>

Next ==
  \/ FindSectionBounds
  \/ SectionMain
  \/ ParseTagsFile
  \/ TreeMain
  \/ BuildTreeStep
  \/ BuildTreeFinish

Spec == Init /\ [][Next]_vars

SpecReader == InitReader /\ [][Next]_vars

SpecResolver == InitResolver /\ [][Next]_vars

SpecTree == InitTree /\ [][Next]_vars

-----------------------------------------------------------------------------
\* Vocabulary of the properties

\* The heading level of a recognised kind.
HeadingLevel == [chapter |-> 1, section |-> 2, subsection |-> 3,
                 subsubsection |-> 4]

\* find_section_bounds has just returned to main.
SecReturned == sec_pc = "returned"

\* parse_tags_file has just returned to main.
TreeParsed == tree_pc = "parsed"

\* The accepted records in their order of appearance in the tag file.
SecAppended == SecRead(tags, Len(tags), target_file).entries

TreeAppended == TreeRead(tags, Len(tags), target_file).entries

\* name contains query as a substring, letter case ignored.
ContainsIgnoringCase(name, query) ==
  \E off \in 0..(Len(name) - Len(query)) :
    \A i \in 1..Len(query) :
      LowerChar(Char(name, off + i)) = LowerChar(Char(query, i))

\* The indices of the sorted entries whose name matches the query.
Matching == {i \in 1..Len(sec_entries) :
               ContainsIgnoringCase(sec_entries[i].name, section_query)}

\* The first of them.
FirstMatch == CHOOSE i \in Matching : \A j \in Matching : i <= j

\* Among the records app, listed in file order, the first one in the file
\* among the matching records of least line.
FirstInFile(app) ==
  LET matching == {i \in 1..Len(app) :
                     ContainsIgnoringCase(app[i].name, section_query)}
      least    == CHOOSE n \in {app[i].line_num : i \in matching} :
                    \A i \in matching : n <= app[i].line_num
      onLeast  == {i \in matching : app[i].line_num = least}
  IN app[CHOOSE i \in onLeast : \A j \in onLeast : i <= j]

\* The entries after index i that close a section of the level of entry i.
Closers(i) ==
  {j \in (i + 1)..Len(sec_entries) :
     HeadingLevel[sec_entries[j].kind] <= HeadingLevel[sec_entries[i].kind]}

FirstCloser(i) == CHOOSE j \in Closers(i) : \A h \in Closers(i) : j <= h

\* C1: once a query matches at index i of the line-sorted entries, the
\* resolver returns start = line_i and end = (line of the first later entry
\* whose level is <= the level of entry i) - 1; deeper entries in between do
\* not stop the scan; with no such later entry, end is None.
C1_SectionRange ==
  (SecReturned /\ Matching # {}) =>
    LET i == FirstMatch
    IN /\ sec_result.start = Some(sec_entries[i].line_num)
       /\ IF Closers(i) = {}
          THEN sec_result.end = None
          ELSE sec_result.end = Some(sec_entries[FirstCloser(i)].line_num - 1)

\* A match whose section holds a strictly deeper entry before the entry
\* that closes it.
C1_Witness ==
  /\ SecReturned
  /\ Matching # {}
  /\ Closers(FirstMatch) # {}
  /\ FirstCloser(FirstMatch) > FirstMatch + 1
  /\ sec_result.end # None
  /\ sec_result.end[1] > sec_result.start[1]

\* C2: the matched record is the first entry in line order (file order among
\* equal lines) whose name contains the query, case ignored; the result is
\* (None, None, None) exactly when no accepted record matches, and then the
\* tool prints the "not found" message and exits with code 1.
C2_FirstMatch ==
  /\ SecReturned =>
       IF Matching = {}
       THEN sec_result = [start |-> None, end |-> None, name |-> None]
       ELSE LET first == FirstInFile(SecAppended)
            IN /\ sec_result.start = Some(sec_entries[FirstMatch].line_num)
               /\ sec_result.name = Some(sec_entries[FirstMatch].name)
               /\ sec_result.start = Some(first.line_num)
               /\ sec_result.name = Some(first.name)
  /\ (sec_pc = "exit" /\ Matching = {}) =>
       sec_out = [stdout |-> <<"Section matching '" \o section_query
                                 \o "' not found">>,
                  code   |-> 1]
  /\ (sec_pc = "exit" /\ Matching # {}) => sec_out.code = 0

\* The match is not the first entry, and its name contains the query only
\* when letter case is ignored.
C2_Witness ==
  /\ SecReturned
  /\ Matching # {}
  /\ FirstMatch > 1
  /\ ~Contains(sec_result.name[1], section_query)

\* C6 (as claimed): on success the tool prints "start-end" exactly when the
\* resolver returned a bounded end and "start-EOF" exactly when it returned
\* None, and the fetch instruction has offset start-1 and limit end-start+1
\* exactly when bounded, the unbounded marker exactly when end is None.
C6_OutputFollowsEnd ==
  (sec_pc = "exit" /\ sec_result.start # None) =>
    LET start == sec_result.start[1]
        end   == sec_result.end
        read  == "Read(file_path='" \o target_file \o "', offset="
                   \o str(start - 1) \o ", limit="
    IN IF end # None
       THEN /\ sec_out.stdout[2] = "Lines: " \o str(start) \o "-" \o str(end[1])
            /\ sec_out.stdout[5] = read \o str(end[1] - start + 1) \o ")"
       ELSE /\ sec_out.stdout[2] = "Lines: " \o str(start) \o "-EOF"
            /\ sec_out.stdout[5] = read \o "None)"

\* C8 (as claimed): a bounded end is never before the start.
C8_StartAtMostEnd ==
  (SecReturned /\ sec_result.end # None) =>
    sec_result.start[1] <= sec_result.end[1]

\* C8 (amended): a bounded end is at least start - 1, and it is at least
\* start unless several accepted records share the matched record's line.
C8_EndAtLeastStartMinusOne ==
  (SecReturned /\ sec_result.end # None) =>
    LET start  == sec_result.start[1]
        shared == {i \in 1..Len(sec_entries) : sec_entries[i].line_num = start}
    IN /\ start - 1 <= sec_result.end[1]
       /\ Cardinality(shared) = 1 => start <= sec_result.end[1]

\* The section is closed by a record on the matched record's own line.
C8_Witness ==
  /\ SecReturned
  /\ sec_result.end # None
  /\ sec_result.end[1] = sec_result.start[1] - 1

-----------------------------------------------------------------------------
\* Properties of the readers

\* The fields of a line of the tag file.
Fields(line) == Split(RStripNewline(line), "\t")

\* Field i of parts is a line: token, and what int() makes of its suffix.
IsLineToken(part) == StartsWith(part, "line:")

LineTokenValue(part) == int(Split(part, ":")[2])

\* A malformed line: fewer than 4 fields, or a line of the target file with
\* a line: token whose suffix is no integer.
Malformed(line) ==
  LET parts == Fields(line)
  IN \/ Len(parts) < 4
     \/ /\ parts[2] = target_file
        /\ \E i \in 4..Len(parts) :
              IsLineToken(parts[i]) /\ LineTokenValue(parts[i]) = None

WellFormed(line) == ~Malformed(line)

\* The tag file without its malformed lines.
WellFormedLines == SelectSeq(tags, WellFormed)

\* C3 (as claimed): a malformed line is skipped silently by both readers:
\* no reader raises, and each returns what it returns for the file with the
\* malformed lines left out.
C3_MalformedLinesSkipped ==
  /\ sec_pc # "ValueError"
  /\ tree_pc # "ValueError"
  /\ SecReturned =>
       sec_entries =
         find_section_bounds(WellFormedLines, target_file, section_query).entries
  /\ TreeParsed =>
       tree_entries = parse_tags_file(WellFormedLines, target_file).entries

\* The rows of the tag file, each as its fields.
Rows == [r \in 1..Len(tags) |-> Fields(tags[r])]

\* Some row (of rows) of the tag file has at least 4 fields, the target file as its
\* second field, the given name, the given kind among fields 4..n and, when
\* a line is given, a line: token of that value among fields 4..n.
HasRow(rows, name, kind, line) ==
  \E r \in 1..Len(rows) :
    LET parts == rows[r]
    IN /\ Len(parts) >= 4
       /\ parts[2] = target_file
       /\ parts[1] = name
       /\ \E i \in 4..Len(parts) : parts[i] = kind
       /\ line # None =>
            \E i \in 4..Len(parts) :
               IsLineToken(parts[i]) /\ LineTokenValue(parts[i]) = line

\* C4 (as claimed): every record of either reader comes from a row of the
\* target file with at least 4 fields in which both a kind token and a
\* line:<integer> token were found; so it has a recognised kind and a
\* defined line number.
C4_KindAndLineFound ==
  LET rows == Rows
  IN /\ SecReturned =>
          \A i \in 1..Len(sec_entries) :
             LET e == sec_entries[i]
             IN /\ e.kind \in Kinds
                /\ HasRow(rows, e.name, e.kind, Some(e.line_num))
     /\ TreeParsed =>
          \A i \in 1..Len(tree_entries) :
             LET e == tree_entries[i]
             IN /\ e.kind \in Kinds
                /\ e.line # None
                /\ HasRow(rows, e.name, e.kind, e.line)

\* C4 (amended): every record of either reader comes from a row of the
\* target file with at least 4 fields in which a kind token was found; a
\* record of find_section_bounds also has a line number, found in a line:
\* token and not 0; a record of parse_tags_file has the line number of a
\* line: token of its row, or none.
C4_KindFound ==
  LET rows == Rows
  IN /\ SecReturned =>
          \A i \in 1..Len(sec_entries) :
             LET e == sec_entries[i]
             IN /\ e.kind \in Kinds
                /\ e.line_num # 0
                /\ HasRow(rows, e.name, e.kind, Some(e.line_num))
     /\ TreeParsed =>
          \A i \in 1..Len(tree_entries) :
             LET e == tree_entries[i]
             IN e.kind \in Kinds /\ HasRow(rows, e.name, e.kind, e.line)

\* Both readers returned; the tree reader kept a record without a line, the
\* section reader kept a record.
C4_Witness ==
  /\ SecReturned
  /\ TreeParsed
  /\ Len(sec_entries) > 0
  /\ \E i \in 1..Len(tree_entries) : tree_entries[i].line = None

\* sorted is unsorted in non-decreasing order of Key, records of equal key
\* in their order of appearance in unsorted.
IsStableSort(sorted, unsorted, Key(_)) ==
  /\ Len(sorted) = Len(unsorted)
  /\ \E p \in Permutations(1..Len(unsorted)) :
       /\ \A i \in 1..Len(sorted) : sorted[i] = unsorted[p[i]]
       /\ \A i, j \in 1..Len(sorted) :
            i < j => \/ Key(sorted[i]) < Key(sorted[j])
                     \/ Key(sorted[i]) = Key(sorted[j]) /\ p[i] < p[j]

SecLine(e) == e.line_num

TreeLine(e) == IF e.line = None THEN 0 ELSE e.line[1]

\* C7: the records either reader returns are in non-decreasing line order,
\* records of equal line in their order of appearance in the tag file; in
\* the tree reader a record without a line counts as line 0 and so precedes
\* every record with a positive line.
C7_StableLineOrder ==
  /\ SecReturned => IsStableSort(sec_entries, SecAppended, SecLine)
  /\ TreeParsed =>
       /\ IsStableSort(tree_entries, TreeAppended, TreeLine)
       /\ \A i, j \in 1..Len(tree_entries) :
            (tree_entries[i].line = None /\ tree_entries[j].line # None
               /\ tree_entries[j].line[1] > 0) => i < j

\* Two records share a line under different names, and the tree reader's
\* sort moved a record without a line to the front.
C7_Witness ==
  /\ SecReturned
  /\ TreeParsed
  /\ \E i, j \in 1..Len(sec_entries) :
        /\ i < j
        /\ sec_entries[i].line_num = sec_entries[j].line_num
        /\ sec_entries[i].name # sec_entries[j].name
  /\ tree_entries # TreeAppended
  /\ tree_entries[1].line = None

\* The (name, line, kind) of the records of each reader.
SecTriples ==
  [i \in 1..Len(sec_entries) |->
     [name |-> sec_entries[i].name, line |-> Some(sec_entries[i].line_num),
      kind |-> sec_entries[i].kind]]

TreeTriples(entries) ==
  [i \in 1..Len(entries) |->
     [name |-> entries[i].name, line |-> entries[i].line,
      kind |-> entries[i].kind]]

HasLine(e) == TruthyInt(e.line)

\* C10 (as claimed): when both readers complete, they hold the same
\* (name, line, kind) sequence.
C10_SameRecords ==
  (SecReturned /\ TreeParsed) => SecTriples = TreeTriples(tree_entries)

\* C10 (amended): when both readers complete, the section reader's sequence
\* is the tree reader's sequence without the records that have no line
\* number or line number 0.
C10_SameRecordsWithLine ==
  (SecReturned /\ TreeParsed) =>
     SecTriples = TreeTriples(SelectSeq(tree_entries, HasLine))

\* Both readers completed, the section reader holds two records that the
\* sort put in another order, the tree reader one record more.
C10_Witness ==
  /\ SecReturned
  /\ TreeParsed
  /\ Len(sec_entries) >= 2
  /\ sec_entries # SecAppended
  /\ Len(tree_entries) > Len(sec_entries)

-----------------------------------------------------------------------------
\* Properties of the tree builder

\* build_tree_structure is running or has finished.
TreeBuilding == tree_pc = "loop" \/ (tree_pc = "exit" /\ Len(tree_entries) > 0)

RECURSIVE LeadingSpaces(_)
LeadingSpaces(s) ==
  IF Len(s) > 0 /\ Char(s, 1) = " " THEN 1 + LeadingSpaces(Tail0(s, 2)) ELSE 0

\* The indentation depth of a rendered line, and its glyph.
Depth(line) == LeadingSpaces(line) \div 2

Glyph(line) == Char(line, LeadingSpaces(line) + 1)

\* The records before record j that are strictly shallower than it.
Shallower(j) ==
  {i \in 1..(j - 1) : tree_entries[i].level < tree_entries[j].level}

Nearest(j) == CHOOSE i \in Shallower(j) : \A h \in Shallower(j) : h <= i

\* C5: after the step for record j = k - 1 at level L, every stack entry
\* below it has a level < L (those at >= L were popped), the record was
\* rendered at depth D = number of those entries, and it is on top of the
\* stack; the entry right below it, its parent, is the nearest preceding
\* record with level < L, and without such a record D = 0.
C5_ParentIsNearestShallower ==
  (TreeBuilding /\ k > 1) =>
    LET j == k - 1
        L == tree_entries[j].level
        D == Len(stack) - 1
    IN /\ Len(lines) = j
       /\ stack[Len(stack)] = <<L, tree_entries[j]>>
       /\ \A i \in 1..D : stack[i][1] < L
       /\ Depth(lines[j]) = D
       /\ IF Shallower(j) = {}
          THEN D = 0
          ELSE stack[D] = <<tree_entries[Nearest(j)].level,
                            tree_entries[Nearest(j)]>>

\* The third record closed the second and was rendered under the first.
C5_Witness ==
  /\ tree_pc = "loop"
  /\ k = 4
  /\ Shallower(3) # {}
  /\ Nearest(3) = 1
  /\ Depth(lines[3]) = 1

\* C9: the levels on the stack increase strictly from bottom to top; a
\* record at level L is rendered at depth <= L - 1 <= 3, a level-1 record at
\* depth 0 with the root glyph, and every line at most one deeper than the
\* line before it.
C9_StackStrictlyIncreasing ==
  TreeBuilding =>
    /\ \A i \in 1..(Len(stack) - 1) : stack[i][1] < stack[i + 1][1]
    /\ \A j \in 1..Len(lines) :
         /\ tree_entries[j].level \in 1..4
         /\ Depth(lines[j]) <= tree_entries[j].level - 1
         /\ Depth(lines[j]) <= 3
         /\ tree_entries[j].level = 1 =>
              Depth(lines[j]) = 0 /\ Glyph(lines[j]) = TreeChar(0)
         /\ j > 1 => Depth(lines[j]) <= Depth(lines[j - 1]) + 1

\* After nested records, a level-1 record was rendered at depth 0 and is
\* alone on the stack.
C9_Witness ==
  /\ TreeBuilding
  /\ Len(lines) >= 3
  /\ Depth(lines[Len(lines) - 1]) >= 1
  /\ tree_entries[Len(lines)].level = 1
  /\ Len(stack) = 1

====
